---- MODULE Spec2Model ----
(***************************************************************************)
(* Model of the text folding engine of frescobaldi_app/widgets/folding.py  *)
(* (class Folder).  A document is a sequence of lines (QTextBlocks,        *)
(* numbered from 1 here), each line a sequence of characters.  The state   *)
(* is the visibility flag of every line and the collapse marks kept by the *)
(* mark() hook; the operations are the public methods of Folder.           *)
(***************************************************************************)
EXTENDS Integers, Sequences, FiniteSets, TLC

START == 1
STOP == -1

\* ---- bounds of the model -------------------------------------------------
MaxLines == 4       \* longest document
MaxLineLen == 2     \* longest run of braces on one line of a document
MaxTextLen == 4     \* longest text of the single-line specification
MaxDepth == 1       \* largest depth argument passed to region/fold/unfold

Chars == {"{", "}", "x"}
Braces == {"{", "}"}

TextsOver(alphabet, n) == UNION {[1..k -> alphabet] : k \in 0..n}

\* the lines a document is made of: a line without braces, and every run of
\* braces up to MaxLineLen but "{}", which fold_level treats like the former
LineTexts == {<<"x">>} \cup (TextsOver(Braces, MaxLineLen) \ {<<>>, <<"{", "}">>})

Docs == UNION {[1..k -> LineTexts] : k \in 1..MaxLines}

Depths == (-1)..MaxDepth

Hooks == {"default", "storing"}

VARIABLES
    doc,          \* the document: sequence of line texts
    hook,         \* which mark() implementation the Folder has
    visible,      \* visible[b]: QTextBlock.isVisible() of line b
    marks,        \* marks[b]: state stored by an overridden mark()
    op,           \* name of the last method called
    err,          \* the last call raised an exception
    ret,          \* value returned by the last fold_level call
    handler,      \* what is connected to ViewActions.viewRequested
    pages,        \* pages[v]: page count and current page of view v
    _view,        \* ViewActions._view(): the view that is set, or None
    connections,  \* connections[v][s]: update slots connected to signal s of v
    requested,    \* viewRequested emissions during the last call
    viewCalls,    \* methods the last call invoked on a view
    _currentPage, \* PagerAction._currentPage
    _pageCount,   \* PagerAction._pageCount
    widgets,      \* PagerAction.createdWidgets(): the spinboxes
    emitted,      \* currentPageNumberChanged emissions during the last call
    result,       \* value returned by the last names() call
    painted,      \* Painter.draw calls of the last paintEvent
    _viewMode,    \* ZoomerAction._viewMode
    _zoomFactor,  \* ZoomerAction._zoomFactor, in thousandths
    comboBoxes,   \* ZoomerAction.createdWidgets(): the comboboxes
    zoomEmitted,  \* signals the ZoomerAction emitted during the last call
    viewZoom,     \* viewZoom[v]: view mode and zoom factor of view v
    _page,        \* Dialog._page: the page to export, or None
    _exporter,    \* Dialog._exporter
    _job,         \* SingleRun: the job whose callback is still to come
    jobs,         \* export jobs running in a background thread
    document,     \* the document the image viewer shows
    exporter,     \* FileDragger.exporter
    currentFile,  \* FileDragger.currentFile
    enabled,      \* enabled[b]: isEnabled() of button b
    currentIndex, \* typeCombo.currentIndex()
    currentText,  \* dpiCombo.currentText()
    supportsResolution,  \* supportsResolution of each exporter class
    exported,     \* exporters created so far
    used          \* the exporter and document the last button action used

fvars == <<doc, hook, visible, marks, ret, painted>>

qvars == <<handler, pages, _view, connections, requested, viewCalls,
           _currentPage, _pageCount, widgets, emitted, result, _viewMode,
           _zoomFactor, comboBoxes, zoomEmitted, viewZoom>>

dvars == <<_page, _exporter, _job, jobs, document, exporter, currentFile,
           enabled, currentIndex, currentText, supportsResolution, exported,
           used>>

vars == <<doc, hook, visible, marks, op, err, ret, handler, pages, _view,
          connections, requested, viewCalls, _currentPage, _pageCount,
          widgets, emitted, result, painted, _viewMode, _zoomFactor,
          comboBoxes, zoomEmitted, viewZoom, _page, _exporter, _job, jobs,
          document, exporter, currentFile, enabled, currentIndex,
          currentText, supportsResolution, exported, used>>

Lines(d) == 1..Len(d)

\* ---- cursortools (block iteration) ---------------------------------------

\* forwards(block), backwards(block) and all_blocks(doc) yield blocks while
\* the block is valid; forwards(block, until) stops after until
isValid(d, b) == b \in Lines(d)

\* ---- Folder: pure queries ------------------------------------------------

IsBrace(c) == c \in Braces

fold_events(text) ==
    LET bs == SelectSeq(text, IsBrace)
    IN  [i \in 1..Len(bs) |-> IF bs[i] = "{" THEN START ELSE STOP]

\* fold_level that does not discard a region opened and closed on one line
RECURSIVE fold_level_nocancel_loop(_, _, _, _)
fold_level_nocancel_loop(ev, i, start, stop) ==
    IF i > Len(ev) THEN [stop |-> stop, start |-> start]
    ELSE IF ev[i] = START THEN fold_level_nocancel_loop(ev, i + 1, start + 1, stop)
    ELSE fold_level_nocancel_loop(ev, i + 1, start, stop - 1)

fold_level_nocancel(text) == fold_level_nocancel_loop(fold_events(text), 1, 0, 0)

\* fold_level where one STOP cancels every pending START of the line
RECURSIVE fold_level_cancel_all_loop(_, _, _, _)
fold_level_cancel_all_loop(ev, i, start, stop) ==
    IF i > Len(ev) THEN [stop |-> stop, start |-> start]
    ELSE IF ev[i] = START THEN fold_level_cancel_all_loop(ev, i + 1, start + 1, stop)
    ELSE IF start # 0 THEN fold_level_cancel_all_loop(ev, i + 1, 0, stop)
    ELSE fold_level_cancel_all_loop(ev, i + 1, start, stop - 1)

fold_level_cancel_all(text) == fold_level_cancel_all_loop(fold_events(text), 1, 0, 0)

RECURSIVE fold_level_loop(_, _, _, _)
fold_level_loop(ev, i, start, stop) ==
    IF i > Len(ev) THEN [stop |-> stop, start |-> start]
    ELSE IF ev[i] = START THEN fold_level_loop(ev, i + 1, start + 1, stop)
    ELSE IF start # 0 THEN fold_level_loop(ev, i + 1, start - 1, stop)
    ELSE fold_level_loop(ev, i + 1, start, stop - 1)

fold_level(text) == fold_level_loop(fold_events(text), 1, 0, 0)

RECURSIVE SumSeq(_)
SumSeq(s) == IF s = <<>> THEN 0 ELSE s[1] + SumSeq(Tail(s))

RECURSIVE depth_loop(_, _, _)
depth_loop(d, b, count) ==
    IF ~isValid(d, b) THEN count
    ELSE depth_loop(d, b - 1, count + SumSeq(fold_events(d[b])))

\* depth that counts the events of the block itself too
depth_inclusive(d, block) == depth_loop(d, block, 0)

depth(d, block) == depth_loop(d, block - 1, 0)

NoRegion == [kind |-> "none", start |-> 0, end |-> 0]
RegionError == [kind |-> "error", start |-> 0, end |-> 0]
Region(s, e) == [kind |-> "region", start |-> s, end |-> e]

\* region_back that leaves the closing events out of the count
RECURSIVE region_back_nostop(_, _, _, _, _, _)
region_back_nostop(d, b, dep, start, start_depth, count) ==
    IF ~isValid(d, b) THEN <<start, start_depth>>
    ELSE LET l == fold_level(d[b])
             c == count + l.start
         IN  IF l.start # 0
             THEN IF c > start_depth
                  THEN IF c > dep /\ dep > -1
                       THEN <<b, c>>
                       ELSE region_back_nostop(d, b - 1, dep, b, c, c)
                  ELSE region_back_nostop(d, b - 1, dep, start, start_depth, c)
             ELSE region_back_nostop(d, b - 1, dep, start, start_depth, count)

\* the backward scan of region(): returns <<start, start_depth>>, start = 0
\* standing for None
RECURSIVE region_back(_, _, _, _, _, _)
region_back(d, b, dep, start, start_depth, count) ==
    IF ~isValid(d, b) THEN <<start, start_depth>>
    ELSE LET l == fold_level(d[b])
             c == count + l.start
         IN  IF l.start # 0
             THEN IF c > start_depth
                  THEN IF c > dep /\ dep > -1
                       THEN <<b, c>>
                       ELSE region_back(d, b - 1, dep, b, c, c + l.stop)
                  ELSE region_back(d, b - 1, dep, start, start_depth, c + l.stop)
             ELSE region_back(d, b - 1, dep, start, start_depth, count + l.stop)

\* the forward scan of region(): the loop variable end runs from e on
RECURSIVE region_fwd(_, _, _, _)
region_fwd(d, start, e, count) ==
    LET l == fold_level(d[e])
    IN  IF count <= -l.stop THEN Region(start, e)
        ELSE IF isValid(d, e + 1)
             THEN region_fwd(d, start, e + 1, count + l.stop + l.start)
             ELSE Region(start, e)

region(d, block, dep) ==
    LET back == region_back(d, block, dep, 0, 0, 0)
    IN  IF back[1] = 0 THEN NoRegion
        ELSE IF ~isValid(d, block + 1)
             THEN RegionError     \* the loop variable end was never bound
             ELSE region_fwd(d, back[1], block + 1, back[2])

\* ---- Folder: operations ---------------------------------------------------
\* An operation maps a folding state st = [visible, marks, dirty, calls, err]
\* to the state it leaves behind.

\* mark(block, state) with a state: remembered only by an overriding hook
mark_set(h, st, b, state) ==
    [st EXCEPT !.calls = Append(@, <<b, state>>),
               !.marks = IF h = "storing" THEN [@ EXCEPT ![b] = state] ELSE @]

\* mark(block) that reports every block as collapsed
mark_collapsed(h, st, b) == TRUE

\* mark(block) without a state: the default implementation returns None
mark(h, st, b) == h = "storing" /\ st.marks[b]

setVisible(st, bs, v) ==
    [st EXCEPT !.visible = [b \in DOMAIN @ |-> IF b \in bs THEN v ELSE @[b]]]

markContentsDirty(st, first, last) ==
    [st EXCEPT !.dirty = Append(@, <<first, last>>)]

raise(st) == [st EXCEPT !.err = TRUE]

\* fold that hides the end line even when it opens a new region
fold_hide_end(d, h, st, block, dep) ==
    LET r == region(d, block, dep)
    IN  IF r.kind = "error" THEN raise(st)
        ELSE IF r.kind = "none" THEN st
        ELSE LET hidden == setVisible(st, (r.start + 1)..r.end, FALSE)
             IN  markContentsDirty(mark_set(h, hidden, r.start, TRUE), r.start, r.end)

\* fold that hides the first block of the region too
fold_hide_start(d, h, st, block, dep) ==
    LET r == region(d, block, dep)
    IN  IF r.kind = "error" THEN raise(st)
        ELSE IF r.kind = "none" THEN st
        ELSE LET end == IF fold_level(d[r.end]).start # 0 THEN r.end - 1 ELSE r.end
                 hidden == setVisible(st, r.start..end, FALSE)
             IN  markContentsDirty(mark_set(h, hidden, r.start, TRUE), r.start, end)

fold(d, h, st, block, dep) ==
    LET r == region(d, block, dep)
    IN  IF r.kind = "error" THEN raise(st)
        ELSE IF r.kind = "none" THEN st
        ELSE LET end == IF fold_level(d[r.end]).start # 0 THEN r.end - 1 ELSE r.end
                 hidden == setVisible(st, (r.start + 1)..end, FALSE)
             IN  markContentsDirty(mark_set(h, hidden, r.start, TRUE), r.start, end)

\* the inner loop of unfold(): skips a collapsed sub-region, taking blocks
\* from the same iterator; returns the next block the iterator will yield
RECURSIVE unfold_skip(_, _, _, _)
unfold_skip(d, r, b, count) ==
    IF b > r.end THEN b
    ELSE LET l == fold_level(d[b])
         IN  IF count <= -l.stop THEN b + 1
             ELSE unfold_skip(d, r, b + 1, count + l.stop + l.start)

RECURSIVE unfold_loop(_, _, _, _, _, _)
unfold_loop(d, h, st, r, full, block) ==
    IF block > r.end THEN st
    ELSE LET l == fold_level(d[block])
             sub == block # r.start /\ block # r.end /\ l.start # 0
             st1 == IF sub /\ full THEN mark_set(h, st, block, FALSE) ELSE st
             next == IF sub /\ ~full /\ mark(h, st, block)
                     THEN unfold_skip(d, r, block + 1, l.start)
                     ELSE block + 1
         IN  unfold_loop(d, h, setVisible(st1, {block}, TRUE), r, full, next)

\* unfold that takes no notice of full
unfold_never_full(d, h, st, block, dep, full) ==
    LET r == region(d, block, dep)
    IN  IF r.kind = "error" THEN raise(st)
        ELSE IF r.kind = "none" THEN st
        ELSE LET shown == unfold_loop(d, h, st, r, FALSE, r.start)
             IN  markContentsDirty(mark_set(h, shown, r.start, FALSE), r.start, r.end)

unfold(d, h, st, block, dep, full) ==
    LET r == region(d, block, dep)
    IN  IF r.kind = "error" THEN raise(st)
        ELSE IF r.kind = "none" THEN st
        ELSE LET shown == unfold_loop(d, h, st, r, full, r.start)
             IN  markContentsDirty(mark_set(h, shown, r.start, FALSE), r.start, r.end)

\* fold_all that also folds the regions opening on hidden lines
RECURSIVE fold_all_descend_loop(_, _, _, _)
fold_all_descend_loop(d, h, st, block) ==
    IF ~isValid(d, block) \/ st.err THEN st
    ELSE IF fold_level(d[block]).start # 0
         THEN fold_all_descend_loop(d, h, fold(d, h, st, block, 0), block + 1)
         ELSE fold_all_descend_loop(d, h, st, block + 1)

fold_all_descend(d, h, st) == fold_all_descend_loop(d, h, st, 1)

RECURSIVE fold_all_loop(_, _, _, _)
fold_all_loop(d, h, st, block) ==
    IF ~isValid(d, block) \/ st.err THEN st
    ELSE IF ~st.visible[block] THEN fold_all_loop(d, h, st, block + 1)
    ELSE IF fold_level(d[block]).start # 0
         THEN fold_all_loop(d, h, fold(d, h, st, block, 0), block + 1)
         ELSE fold_all_loop(d, h, st, block + 1)

fold_all(d, h, st) == fold_all_loop(d, h, st, 1)

\* unfold_all that shows a line only if it opens no region
RECURSIVE unfold_all_elif_loop(_, _, _, _)
unfold_all_elif_loop(d, h, st, block) ==
    IF ~isValid(d, block) THEN st
    ELSE IF fold_level(d[block]).start # 0
         THEN unfold_all_elif_loop(d, h, mark_set(h, st, block, FALSE), block + 1)
         ELSE unfold_all_elif_loop(d, h, setVisible(st, {block}, TRUE), block + 1)

unfold_all_elif(d, h, st) ==
    LET shown == unfold_all_elif_loop(d, h, st, 1)
        changed == {b \in Lines(d) : ~st.visible[b] /\ shown.visible[b]}
        first == CHOOSE b \in changed : \A c \in changed : b <= c
        last == CHOOSE b \in changed : \A c \in changed : b >= c
    IN  IF changed # {} THEN markContentsDirty(shown, first, last) ELSE shown

RECURSIVE unfold_all_loop(_, _, _, _)
unfold_all_loop(d, h, st, block) ==
    IF ~isValid(d, block) THEN st
    ELSE LET st1 == IF fold_level(d[block]).start # 0
                    THEN mark_set(h, st, block, FALSE) ELSE st
         IN  unfold_all_loop(d, h, setVisible(st1, {block}, TRUE), block + 1)

\* unfold_all that signals the whole document, changed or not
unfold_all_dirty(d, h, st) ==
    markContentsDirty(unfold_all_loop(d, h, st, 1), 1, Len(d))

unfold_all(d, h, st) ==
    LET shown == unfold_all_loop(d, h, st, 1)
        changed == {b \in Lines(d) : ~st.visible[b]}
        first == CHOOSE b \in changed : \A c \in changed : b <= c
        last == CHOOSE b \in changed : \A c \in changed : b >= c
    IN  IF changed # {} THEN markContentsDirty(shown, first, last) ELSE shown

RECURSIVE ensure_visible_loop(_, _, _, _, _)
ensure_visible_loop(d, h, st, block, dep) ==
    IF dep < 0 THEN st
    ELSE LET st1 == unfold(d, h, st, block, dep, FALSE)
         IN  IF st1.err \/ st1.visible[block] THEN st1
             ELSE ensure_visible_loop(d, h, st1, block, dep - 1)

\* ensure_visible that does not look whether the block is visible already
ensure_visible_unchecked(d, h, st, block) ==
    ensure_visible_loop(d, h, st, block, depth(d, block) - 1)

ensure_visible(d, h, st, block) ==
    IF st.visible[block] THEN st
    ELSE ensure_visible_loop(d, h, st, block, depth(d, block) - 1)

\* ---- qpageview.viewactions: ViewActions and PagerAction ------------------
\* A call maps the state q of a ViewActions object and its pager,
\* q = [view, conn, requested, calls, currentPage, pageCount, widgets,
\*      emitted, err] with the environment [handler, onerror, pages, depth],
\* to the state it leaves behind. The zoomer adds [viewMode, zoomFactor,
\* combos, zoomEmitted] and the views' own [zoom].

MaxViews == 2          \* views the application passes to setView
MaxPages == 2          \* largest page count of a view
MaxWidgets == 2        \* spinboxes created for the pager
RecursionLimit == 2    \* nested viewRequested handlers the interpreter allows

None == 0

AppViews == 1..MaxViews

\* the views a viewRequested handler creates, one per nesting depth
NewViews == (MaxViews + 1)..(MaxViews + RecursionLimit)

Views == AppViews \cup NewViews

Signals == {"viewModeChanged", "zoomFactorChanged", "pageLayoutModeChanged",
            "orientationChanged", "continuousModeChanged",
            "currentPageNumberChanged", "pageCountChanged"}

Handlers == {"none", "setter"}

\* an exception that leaves a slot either ends the process or is reported
\* and dropped, depending on the binding and the installed excepthook
OnError == {"abort", "report"}

\* what a view shows: no page, or a current page among its pages
PageInfos ==
    {i \in [pageCount : 0..MaxPages, currentPageNumber : 0..MaxPages] :
        IF i.pageCount = 0 THEN i.currentPageNumber = 0
        ELSE i.currentPageNumber \in 1..i.pageCount}

\* a view the handler has just created shows no document
pageInfo(q, v) ==
    IF v \in DOMAIN q.pages THEN q.pages[v]
    ELSE [pageCount |-> 0, currentPageNumber |-> 0]

max(a, b) == IF a >= b THEN a ELSE b

min(a, b) == IF a <= b THEN a ELSE b

connect(q, v) ==
    [q EXCEPT !.conn[v] = [s \in Signals |-> @[s] + 1]]

\* disconnecting a slot that is not connected raises TypeError
disconnect(q, v) ==
    IF \E s \in Signals : q.conn[v][s] = 0 THEN raise(q)
    ELSE [q EXCEPT !.conn[v] = [s \in Signals |-> @[s] - 1]]

\* QSpinBox: a value outside the range is moved to the nearest limit
bound(w, n) ==
    IF n < w.minimum THEN w.minimum ELSE IF n > w.maximum THEN w.maximum ELSE n

RECURSIVE view(_)
RECURSIVE viewRequested(_)
RECURSIVE setView(_, _)
RECURSIVE updateActions(_)
RECURSIVE updatePagerActions(_)
RECURSIVE slotSetPageNumber(_, _)
RECURSIVE setPageCount(_, _)
RECURSIVE _updateDisplay(_, _)
RECURSIVE _adjustSpinBox(_, _)
RECURSIVE setRange(_, _, _, _)
RECURSIVE setValue(_, _, _)
RECURSIVE valueChanged(_, _)
RECURSIVE setCurrentPageNumber(_, _)
RECURSIVE updateCurrentPageNumber(_, _)
RECURSIVE setValues(_, _, _)
RECURSIVE currentPageNumberChanged(_, _)
RECURSIVE updateViewModeActions(_, _)
RECURSIVE updateZoomActions(_, _)
RECURSIVE slotZoomViewMode(_, _)
RECURSIVE slotZoomFactor(_, _)
RECURSIVE view_setViewMode(_, _, _)
RECURSIVE view_setZoomFactor(_, _, _)
RECURSIVE setViewMode(_, _)
RECURSIVE setZoomFactor(_, _)
RECURSIVE viewModeChanged(_, _)
RECURSIVE zoomFactorChanged(_, _)

\* ViewActions.view(): the state it leaves; the view it returns is .view
view(q) ==
    IF q.err \/ q.view # None THEN q
    ELSE viewRequested([q EXCEPT !.requested = @ + 1])

\* viewRequested.emit(): runs the connected handler, which creates a view
\* and calls setView with it; beyond the recursion limit the handler raises
\* RecursionError
viewRequested(q) ==
    IF q.handler = "none" THEN q
    ELSE IF q.depth = RecursionLimit
         THEN IF q.onerror = "abort" THEN raise(q) ELSE q
         ELSE LET q1 == setView([q EXCEPT !.depth = @ + 1], MaxViews + 1 + q.depth)
              IN  [q1 EXCEPT !.depth = q.depth]

\* the two calls of setView() that pass the new view's mode and factor on
updateZoomAndMode(q, v) ==
    LET q1 == updateViewModeActions(q, q.zoom[v].viewMode)
    IN  updateZoomActions(q1, q1.zoom[v].zoomFactor)

\* setView that leaves the connections to the old view in place
setView_keep(q, v) ==
    LET q1 == view(q)
        old == q1.view
    IN  IF q1.err \/ old = v THEN q1
        ELSE IF v # None
             THEN updatePagerActions(updateZoomAndMode(
                      updateActions([connect(q1, v) EXCEPT !.view = v]), v))
             ELSE [q1 EXCEPT !.view = None]

setView(q, v) ==
    LET q1 == view(q)
        old == q1.view
    IN  IF q1.err \/ old = v THEN q1
        ELSE LET q2 == IF old # None THEN disconnect(q1, old) ELSE q1
             IN  IF q2.err THEN q2
                 ELSE IF v # None
                 THEN updatePagerActions(updateZoomAndMode(
                          updateActions([connect(q2, v) EXCEPT !.view = v]), v))
                 ELSE [q2 EXCEPT !.view = None]

\* updateActions(): asks for the view and sets enabled and checked flags
updateActions(q) == view(q)

updatePagerActions(q) ==
    LET q1 == view(q)
    IN  IF q1.err \/ q1.view = None THEN q1
        ELSE updateCurrentPageNumber(
                 setPageCount(q1, pageInfo(q1, q1.view).pageCount),
                 pageInfo(q1, q1.view).currentPageNumber)

slotZoomIn(q) ==
    LET q1 == view(q)
    IN  IF q1.err \/ q1.view = None THEN q1
        ELSE [q1 EXCEPT !.calls = Append(@, <<q1.view, "zoomIn">>)]

slotSetPageNumber(q, num) ==
    LET q1 == view(q)
    IN  IF q1.err \/ q1.view = None THEN q1
        ELSE [q1 EXCEPT !.calls = Append(@, <<q1.view, "setCurrentPageNumber", num>>)]

\* names(): adjacent string literals without a comma between them are one
\* string
names ==
    << "print", "fit_width", "fit_height", "fit_both", "zoom_natural",
       "zoom_original" \o "zoom_in", "zoom_out", "zoomer", "rotate_left",
       "rotate_right", "layout_single", "layout_double_right",
       "layout_double_left", "layout_raster", "vertical", "horizontal",
       "continuous", "reload", "previous_page", "next_page", "pager" >>

\* the public attributes createActions() sets
createActions ==
    {"print", "fit_width", "fit_height", "fit_both", "zoom_natural",
     "zoom_original", "zoom_in", "zoom_out", "zoomer", "rotate_left",
     "rotate_right", "layout_single", "layout_double_right",
     "layout_double_left", "layout_raster", "vertical", "horizontal",
     "continuous", "reload", "previous_page", "next_page", "pager"}

\* PagerAction.createWidget(): the spinbox is adjusted and set before its
\* valueChanged signal is connected
createWidget(q) ==
    LET lo == IF q.pageCount # 0 THEN 1 ELSE 0
        hi == IF q.pageCount # 0 THEN max(1, q.pageCount) ELSE 0
        w0 == [minimum |-> lo, maximum |-> hi, value |-> lo]
        w == IF q.currentPage # 0 THEN [w0 EXCEPT !.value = bound(w0, q.currentPage)]
             ELSE w0
    IN  [q EXCEPT !.widgets = Append(@, w)]

setPageCount(q, pageCount) ==
    IF q.err \/ pageCount = q.pageCount THEN q
    ELSE _updateDisplay(
             [q EXCEPT !.pageCount = pageCount,
                       !.currentPage = IF pageCount # 0
                                       THEN max(1, min(@, pageCount)) ELSE 0],
             1)

\* _updateDisplay(): adjusts the spinboxes from the i-th on
_updateDisplay(q, i) ==
    IF i > Len(q.widgets) THEN q
    ELSE _updateDisplay(_adjustSpinBox(q, i), i + 1)

_adjustSpinBox(q, i) ==
    IF q.pageCount # 0 THEN setRange(q, i, 1, q.pageCount)
    ELSE setRange(q, i, 0, 0)

\* QSpinBox.setRange(): emits valueChanged when the value had to move
setRange(q, i, lo, hi) ==
    LET w == q.widgets[i]
        w1 == [w EXCEPT !.minimum = lo, !.maximum = max(lo, hi)]
        v == bound(w1, w.value)
        q1 == [q EXCEPT !.widgets[i] = [w1 EXCEPT !.value = v]]
    IN  IF q.err THEN q
        ELSE IF v # w.value THEN valueChanged(q1, v) ELSE q1

\* QSpinBox.setValue(): emits valueChanged when the value changes
setValue(q, i, n) ==
    LET w == q.widgets[i]
        v == bound(w, n)
        q1 == [q EXCEPT !.widgets[i].value = v]
    IN  IF q.err THEN q
        ELSE IF v # w.value THEN valueChanged(q1, v) ELSE q1

\* the slot createWidget() connects to valueChanged
valueChanged(q, v) == setCurrentPageNumber(q, v)

setCurrentPageNumber(q, num) ==
    IF q.err THEN q
    ELSE IF num # 0 /\ num # q.currentPage
         THEN currentPageNumberChanged(updateCurrentPageNumber(q, num), num)
         ELSE q

updateCurrentPageNumber(q, num) ==
    IF q.err THEN q
    ELSE IF num # 0 /\ num # q.currentPage
         THEN setValues([q EXCEPT !.currentPage = num], 1, num)
         ELSE q

\* the loop of updateCurrentPageNumber() over the created widgets
setValues(q, i, num) ==
    IF i > Len(q.widgets) THEN q
    ELSE setValues(setValue(q, i, num), i + 1, num)

\* currentPageNumberChanged.emit(num): runs ViewActions.slotSetPageNumber
currentPageNumberChanged(q, num) ==
    IF q.err THEN q
    ELSE slotSetPageNumber([q EXCEPT !.emitted = Append(@, num)], num)

\* ---- qpageview.viewactions: ZoomerAction ---------------------------------
\* Zoom factors are counted in thousandths: 1000 is the factor 1.0.

FixedScale == 0
FitWidth == 1
FitHeight == 2
FitBoth == 3

_viewModes == << <<FitWidth, "Width">>, <<FitHeight, "Height">>,
                 <<FitBoth, "Page">> >>

_zoomFactors == <<500, 750, 1000, 1250, 1500, 2000, 3000, 8000, 24000, 64000>>

\* "{0:.0%}".format(v): the factor as a whole percentage
_zoomFormat(v) == [name |-> "", percent |-> (v + 5) \div 10]

\* the text of entry i of a combobox (entries count from 0)
itemText(i) ==
    IF i < Len(_viewModes) THEN [name |-> _viewModes[i + 1][2], percent |-> 0]
    ELSE _zoomFormat(_zoomFactors[i - Len(_viewModes) + 1])

Indexes == 0..(Len(_viewModes) + Len(_zoomFactors) - 1)

\* a view as it is constructed: fixed scale, factor 1.0
DefaultZoom == [viewMode |-> FixedScale, zoomFactor |-> 1000]

\* QComboBox.setCurrentIndex(i): selects entry i and shows its text
selectIndex(w, i) == [currentIndex |-> i, editText |-> itemText(i)]

\* _setupComboBox(): a filled combobox has its first entry selected
_setupComboBox == selectIndex([currentIndex |-> -1], 0)

\* the position of factor in _zoomFactors, counted from 0, or -1
index(factor) ==
    IF \E k \in 1..Len(_zoomFactors) : _zoomFactors[k] = factor
    THEN (CHOOSE k \in 1..Len(_zoomFactors) : _zoomFactors[k] = factor) - 1
    ELSE -1

\* the entry of the current view mode, or -1
modeIndex(mode) ==
    IF \E k \in 1..Len(_viewModes) : _viewModes[k][1] = mode
    THEN (CHOOSE k \in 1..Len(_viewModes) : _viewModes[k][1] = mode) - 1
    ELSE -1

_adjustComboBox(w, mode, factor) ==
    IF modeIndex(mode) # -1 THEN selectIndex(w, modeIndex(mode))
    ELSE IF index(factor) # -1
         THEN selectIndex(w, index(factor) + Len(_viewModes))
         ELSE [w EXCEPT !.editText = _zoomFormat(factor)]

_adjustComboBoxes(q) ==
    [q EXCEPT !.combos =
        [i \in DOMAIN @ |-> _adjustComboBox(@[i], q.viewMode, q.zoomFactor)]]

\* ZoomerAction.createWidget()
createComboBox(q) ==
    [q EXCEPT !.combos =
        Append(@, _adjustComboBox(_setupComboBox, q.viewMode, q.zoomFactor))]

updateViewModeActions(q, mode) ==
    IF q.err THEN q ELSE setViewMode(q, mode)

updateZoomActions(q, factor) ==
    IF q.err THEN q ELSE setZoomFactor(q, factor)

slotZoomViewMode(q, mode) ==
    LET q1 == view(q)
    IN  IF q1.err \/ q1.view = None THEN q1
        ELSE view_setViewMode(q1, q1.view, mode)

slotZoomFactor(q, factor) ==
    LET q1 == view(q)
    IN  IF q1.err \/ q1.view = None THEN q1
        ELSE view_setZoomFactor(q1, q1.view, factor)

\* View.setViewMode(): a new mode is announced with viewModeChanged, which
\* runs the connected updateViewModeActions
view_setViewMode(q, v, mode) ==
    IF q.zoom[v].viewMode = mode THEN q
    ELSE LET q1 == [q EXCEPT !.zoom[v].viewMode = mode]
         IN  IF q1.conn[v]["viewModeChanged"] > 0
             THEN updateViewModeActions(q1, mode) ELSE q1

\* View.setZoomFactor(): switches to fixed scale, then announces a new
\* factor with zoomFactorChanged, which runs the connected updateZoomActions
view_setZoomFactor(q, v, factor) ==
    LET q1 == view_setViewMode(q, v, FixedScale)
    IN  IF q1.err \/ q1.zoom[v].zoomFactor = factor THEN q1
        ELSE LET q2 == [q1 EXCEPT !.zoom[v].zoomFactor = factor]
             IN  IF q2.conn[v]["zoomFactorChanged"] > 0
                 THEN updateZoomActions(q2, factor) ELSE q2

setViewMode(q, mode) ==
    IF mode # q.viewMode
    THEN LET q1 == viewModeChanged([q EXCEPT !.viewMode = mode], mode)
         IN  IF q1.err THEN q1 ELSE _adjustComboBoxes(q1)
    ELSE q

setZoomFactor(q, factor) ==
    IF factor # q.zoomFactor
    THEN LET q1 == zoomFactorChanged([q EXCEPT !.zoomFactor = factor], factor)
         IN  IF q1.err THEN q1 ELSE _adjustComboBoxes(q1)
    ELSE q

\* viewModeChanged.emit(mode): runs ViewActions.slotZoomViewMode
viewModeChanged(q, mode) ==
    slotZoomViewMode(
        [q EXCEPT !.zoomEmitted = Append(@, <<"viewModeChanged", mode>>)],
        mode)

\* zoomFactorChanged.emit(factor): runs ViewActions.slotZoomFactor
zoomFactorChanged(q, factor) ==
    slotZoomFactor(
        [q EXCEPT !.zoomEmitted = Append(@, <<"zoomFactorChanged", factor>>)],
        factor)

setCurrentIndex(q, index_) ==
    LET viewModeCount == Len(_viewModes)
    IN  IF index_ < viewModeCount
        THEN setViewMode(q, _viewModes[index_ + 1][1])
        ELSE setZoomFactor(q, _zoomFactors[index_ - viewModeCount + 1])

\* ---- copy2image: Dialog and FileDragger ----------------------------------
\* A call maps the state d of a Dialog, its image viewer, its FileDragger
\* and its SingleRun to the state it leaves behind. An exporter is
\* [id, type, cls, page, resolution]; a document is named by the id of the
\* exporter that made it.

MaxExports == 3   \* exporters a dialog creates

exportTypes == << <<"svg", "SvgExporter">>, <<"pdf", "PdfExporter">>,
                  <<"eps", "EpsExporter">>, <<"png", "ImageExporter">>,
                  <<"jpg", "ImageExporter">> >>

Classes == {exportTypes[k][2] : k \in DOMAIN exportTypes}

\* the entries of typeCombo, counted from 0
TypeIndexes == 0..(Len(exportTypes) - 1)

Buttons == {"dragfile", "saveButton", "copyButton"}

Digits == <<"0", "1", "2", "3", "4", "5", "6", "7", "8", "9">>

\* texts the validator of the DPI box lets through: nothing, numbers, and
\* the beginning of a number in scientific notation
DpiTexts == {<<>>, <<"7", "2">>, <<"1", "e">>}

isDigit(c) == \E k \in DOMAIN Digits : Digits[k] = c

digit(c) == (CHOOSE k \in DOMAIN Digits : Digits[k] = c) - 1

RECURSIVE digits(_, _)
digits(text, n) ==
    IF text = <<>> THEN n ELSE digits(Tail(text), 10 * n + digit(Head(text)))

\* float(text) for texts made of digits and "e": a number needs a digit
\* first and digits after an "e"; any other text raises ValueError
float(text) ==
    IF text # <<>> /\ \A k \in DOMAIN text : isDigit(text[k])
    THEN [ok |-> TRUE, value |-> digits(text, 0)]
    ELSE [ok |-> FALSE, value |-> 0]

\* the resolution an exporter class starts with
DefaultResolution == 0

\* SingleRun.__call__(): the job runs in a thread; an earlier job keeps
\* running but its callback is no longer delivered
runJob(d, job) == [d EXCEPT !.job = job, !.jobs = @ \cup {job}]

setEnabled(d, value) == [d EXCEPT !.enabled = [b \in Buttons |-> value]]

updateExport(d) ==
    LET t == exportTypes[d.currentIndex + 1]
        e == [id |-> d.exported + 1, type |-> t[1], cls |-> t[2],
              page |-> d.page, resolution |-> DefaultResolution]
        d1 == [d EXCEPT !.exporter = e, !.exported = @ + 1]
        text == IF d.currentText = <<>> THEN <<"1", "0", "0">>
                ELSE d.currentText
    IN  IF d.supportsResolution[e.cls] /\ ~float(text).ok
        THEN IF d.onerror = "abort" THEN raise(d1) ELSE d1
        ELSE LET d2 == IF d.supportsResolution[e.cls]
                       THEN [d1 EXCEPT !.exporter.resolution = float(text).value]
                       ELSE d1
             IN  runJob(setEnabled(d2, FALSE), e.id)

setPage(d, page) == updateExport([d EXCEPT !.page = page])

\* FileDragger.setExporter()
setExporter(d, e) == [d EXCEPT !.dragger = e, !.currentFile = None]

exportDone(d, made) ==
    setEnabled(setExporter([d EXCEPT !.document = made], d.exporter), TRUE)

\* the thread of job ends: SingleRun calls the callback with the job's
\* result when the job is the most recently started one
finished(d, job) ==
    LET d1 == [d EXCEPT !.jobs = @ \ {job}]
    IN  IF job = d.job THEN exportDone([d1 EXCEPT !.job = None], job) ELSE d1

copyToClipboard(d) ==
    [d EXCEPT !.used = [exporter |-> d.exporter.id, document |-> d.document]]

\* saveAs() with a file name chosen and the image saved
saveAs(d) ==
    [d EXCEPT !.used = [exporter |-> d.exporter.id, document |-> d.document],
              !.currentFile = d.document]

\* FileDragger.filename(): the file a drag of the button hands out, made
\* by the dragger's exporter unless there is one already
filename(d) ==
    IF d.currentFile # None
    THEN [d EXCEPT !.used = [exporter |-> d.dragger.id, document |-> d.currentFile]]
    ELSE IF d.dragger.id = None THEN d
    ELSE [d EXCEPT !.currentFile = d.dragger.id,
                   !.used = [exporter |-> d.dragger.id, document |-> d.dragger.id]]

\* ---- FoldingArea.paintEvent ----------------------------------------------

OPEN == 1
CLOSE == -1

\* the inner loop of paintEvent(): passes the hidden blocks after a folded
\* opening line, adding up their events; returns <<count, next_block>>
RECURSIVE paint_run(_, _, _, _)
paint_run(d, vis, next_block, count) ==
    IF isValid(d, next_block) /\ ~vis[next_block]
    THEN paint_run(d, vis, next_block + 1,
                   count + SumSeq(fold_events(d[next_block])))
    ELSE <<count, next_block>>

\* paintEvent whose running depth leaves out the hidden blocks
RECURSIVE paint_loop_visible(_, _, _, _, _, _)
paint_loop_visible(d, vis, bottom, block, dep, draws) ==
    IF ~isValid(d, block) THEN draws
    ELSE LET level == fold_level(d[block])
             count == level.stop + level.start
         IN  IF vis[block]
             THEN IF block >= bottom THEN draws
                  ELSE LET folded == /\ level.start # 0
                                     /\ isValid(d, block + 1)
                                     /\ ~vis[block + 1]
                           next_block == IF folded
                                         THEN paint_run(d, vis, block + 1, count)[2]
                                         ELSE block + 1
                           indicator == IF level.start # 0
                                        THEN IF folded THEN OPEN ELSE CLOSE
                                        ELSE None
                       IN  paint_loop_visible(d, vis, bottom, next_block, dep + count,
                               Append(draws, [block |-> block, indicator |-> indicator,
                                              depth |-> dep, new_depth |-> dep + count]))
             ELSE paint_loop_visible(d, vis, bottom, block + 1, dep, draws)

paintEvent_visible(d, vis, first, bottom) ==
    paint_loop_visible(d, vis, bottom, first, depth(d, first), <<>>)

\* the loop of paintEvent(); a visible block at or below bottom lies under
\* the rectangle to paint and ends the loop
RECURSIVE paint_loop(_, _, _, _, _, _)
paint_loop(d, vis, bottom, block, dep, draws) ==
    IF ~isValid(d, block) THEN draws
    ELSE LET level == fold_level(d[block])
             count == level.stop + level.start
         IN  IF vis[block]
             THEN IF block >= bottom THEN draws
                  ELSE LET folded == /\ level.start # 0
                                     /\ isValid(d, block + 1)
                                     /\ ~vis[block + 1]
                           run == IF folded
                                  THEN paint_run(d, vis, block + 1, count)
                                  ELSE <<count, block + 1>>
                           indicator == IF level.start # 0
                                        THEN IF folded THEN OPEN ELSE CLOSE
                                        ELSE None
                       IN  paint_loop(d, vis, bottom, run[2], dep + run[1],
                               Append(draws, [block |-> block, indicator |-> indicator,
                                              depth |-> dep, new_depth |-> dep + run[1]]))
             ELSE paint_loop(d, vis, bottom, block + 1, dep + count, draws)

\* paintEvent(ev) when the edit's first visible block is first: the
\* Painter.draw calls it makes
paintEvent(d, vis, first, bottom) ==
    paint_loop(d, vis, bottom, first, depth(d, first), <<>>)

\* ---- the state machine ----------------------------------------------------

NoRet == [stop |-> 0, start |-> 0]

\* a ViewActions object after __init__: no view, nothing connected, an
\* empty pager without widgets
InitActions(handlers, infos) ==
    /\ handler \in handlers
    /\ pages \in [AppViews -> infos]
    /\ _view = None
    /\ connections = [v \in Views |-> [s \in Signals |-> 0]]
    /\ requested = 0
    /\ viewCalls = <<>>
    /\ _currentPage = 0
    /\ _pageCount = 0
    /\ widgets = <<>>
    /\ emitted = <<>>
    /\ result = <<>>
    /\ _viewMode = FixedScale
    /\ _zoomFactor = 1000
    /\ comboBoxes = <<>>
    /\ zoomEmitted = <<>>

NoPages == {[pageCount |-> 0, currentPageNumber |-> 0]}

NoExporter == [id |-> None]

NotUsed == [exporter |-> None, document |-> None]

\* a Dialog after __init__ with exporter classes that support what
\* supports says and the export type and DPI text readSettings() found:
\* no page, no exporter, nothing shown, buttons enabled
InitDialog(supports, indexes, texts) ==
    /\ _page = None
    /\ _exporter = NoExporter
    /\ _job = None
    /\ jobs = {}
    /\ document = None
    /\ exporter = NoExporter
    /\ currentFile = None
    /\ enabled = [b \in Buttons |-> TRUE]
    /\ currentIndex \in indexes
    /\ currentText \in texts
    /\ supportsResolution \in supports
    /\ exported = 0
    /\ used = NotUsed

\* the other specifications leave the dialog alone
NoDialog == InitDialog({[c \in Classes |-> TRUE]}, {0}, {<<>>})

InitFolder(docs) ==
    /\ InitActions({"none"}, NoPages)
    /\ viewZoom = [v \in Views |-> DefaultZoom]
    /\ NoDialog
    /\ doc \in docs
    /\ hook \in Hooks
    /\ visible = [b \in Lines(doc) |-> TRUE]
    /\ marks = [b \in Lines(doc) |-> FALSE]
    /\ op = "init"
    /\ err = FALSE
    /\ ret = NoRet
    /\ painted = <<>>

Init == InitFolder(Docs)

\* the folding state a call starts from
Cur == [visible |-> visible, marks |-> marks, dirty |-> <<>>, calls |-> <<>>,
        err |-> FALSE]

\* a call that leaves the folding state st behind
Done(name, st) ==
    /\ op' = name
    /\ visible' = st.visible
    /\ marks' = st.marks
    /\ err' = st.err
    /\ ret' = NoRet
    /\ painted' = <<>>
    /\ UNCHANGED <<doc, hook>>
    /\ UNCHANGED qvars
    /\ UNCHANGED dvars

Fold ==
    \E b \in Lines(doc), d \in Depths :
        Done("fold", fold(doc, hook, Cur, b, d))

Unfold ==
    \E b \in Lines(doc), d \in Depths, full \in BOOLEAN :
        Done("unfold", unfold(doc, hook, Cur, b, d, full))

FoldAll == Done("fold_all", fold_all(doc, hook, Cur))

UnfoldAll == Done("unfold_all", unfold_all(doc, hook, Cur))

EnsureVisible ==
    \E b \in Lines(doc) :
        Done("ensure_visible", ensure_visible(doc, hook, Cur, b))

Next == Fold \/ Unfold \/ FoldAll \/ UnfoldAll \/ EnsureVisible

Spec == Init /\ [][Next]_vars

\* ---- single-line specification: fold_level on one line of any text --------

Texts == TextsOver(Chars, MaxTextLen)

InitLine == InitFolder({<<t>> : t \in Texts})

FoldLevel ==
    /\ op' = "fold_level"
    /\ ret' = fold_level(doc[1])
    /\ err' = FALSE
    /\ UNCHANGED <<doc, hook, visible, marks, painted>>
    /\ UNCHANGED qvars
    /\ UNCHANGED dvars

NextLine == FoldLevel

SpecLine == InitLine /\ [][NextLine]_vars

\* ---- deep specification: documents that open with three nested regions ----

MaxTail == 3        \* lines that follow the three opening lines

TailTexts == {<<"x">>, <<"{">>, <<"}">>, <<"}", "{">>}

Nest3 == << <<"{">>, <<"{">>, <<"{">> >>

DeepDocs == {Nest3 \o t : t \in [1..MaxTail -> TailTexts]}

InitDeep == InitFolder(DeepDocs)

SpecDeep == InitDeep /\ [][Next]_vars

\* ---- actions specification: a ViewActions object and its pager -----------

InitViewActions ==
    /\ InitActions(Handlers, PageInfos)
    /\ viewZoom = [v \in Views |-> DefaultZoom]
    /\ NoDialog
    /\ doc = << <<"x">> >>
    /\ hook = "default"
    /\ visible = <<TRUE>>
    /\ marks = <<FALSE>>
    /\ op = "init"
    /\ err = FALSE
    /\ ret = NoRet
    /\ painted = <<>>

\* the state a call starts from when a slot exception has outcome onerror
Q(onerror) ==
    [view |-> _view, conn |-> connections, requested |-> 0, calls |-> <<>>,
     currentPage |-> _currentPage, pageCount |-> _pageCount,
     widgets |-> widgets, emitted |-> <<>>, err |-> FALSE,
     handler |-> handler, onerror |-> onerror, pages |-> pages, depth |-> 0,
     viewMode |-> _viewMode, zoomFactor |-> _zoomFactor,
     combos |-> comboBoxes, zoomEmitted |-> <<>>, zoom |-> viewZoom]

\* a call that leaves the state q behind
DoneQ(name, q) ==
    /\ op' = name
    /\ err' = q.err
    /\ _view' = q.view
    /\ connections' = q.conn
    /\ requested' = q.requested
    /\ viewCalls' = q.calls
    /\ _currentPage' = q.currentPage
    /\ _pageCount' = q.pageCount
    /\ widgets' = q.widgets
    /\ emitted' = q.emitted
    /\ _viewMode' = q.viewMode
    /\ _zoomFactor' = q.zoomFactor
    /\ comboBoxes' = q.combos
    /\ zoomEmitted' = q.zoomEmitted
    /\ viewZoom' = q.zoom
    /\ UNCHANGED <<handler, pages, result>>
    /\ UNCHANGED fvars
    /\ UNCHANGED dvars

\* after an exception has ended the process nothing is called any more
SetView ==
    /\ ~err
    /\ \E v \in AppViews \cup {None}, x \in OnError :
           DoneQ("setView", setView(Q(x), v))

SlotZoomIn ==
    /\ ~err
    /\ \E x \in OnError : DoneQ("slotZoomIn", slotZoomIn(Q(x)))

Names ==
    /\ ~err
    /\ op' = "names"
    /\ result' = names
    /\ requested' = 0
    /\ viewCalls' = <<>>
    /\ emitted' = <<>>
    /\ zoomEmitted' = <<>>
    /\ UNCHANGED <<err, handler, pages, _view, connections, _currentPage,
                   _pageCount, widgets, _viewMode, _zoomFactor, comboBoxes,
                   viewZoom>>
    /\ UNCHANGED fvars
    /\ UNCHANGED dvars

CreateWidget ==
    /\ ~err
    /\ Len(widgets) < MaxWidgets
    /\ \E x \in OnError : DoneQ("createWidget", createWidget(Q(x)))

SetPageCount ==
    /\ ~err
    /\ \E n \in 0..MaxPages, x \in OnError :
           DoneQ("setPageCount", setPageCount(Q(x), n))

SetCurrentPageNumber ==
    /\ ~err
    /\ \E n \in 0..(MaxPages + 1), x \in OnError :
           DoneQ("setCurrentPageNumber", setCurrentPageNumber(Q(x), n))

UpdateCurrentPageNumber ==
    /\ ~err
    /\ \E n \in 0..(MaxPages + 1), x \in OnError :
           DoneQ("updateCurrentPageNumber", updateCurrentPageNumber(Q(x), n))

\* the user enters a page number of the spinbox's range
SpinBoxEdited ==
    /\ ~err
    /\ \E i \in 1..Len(widgets), x \in OnError :
       \E n \in widgets[i].minimum..widgets[i].maximum :
           DoneQ("valueChanged", setValue(Q(x), i, n))

NextViewActions ==
    \/ SetView \/ SlotZoomIn \/ Names \/ CreateWidget \/ SetPageCount
    \/ SetCurrentPageNumber \/ UpdateCurrentPageNumber \/ SpinBoxEdited

SpecViewActions == InitViewActions /\ [][NextViewActions]_vars

\* ---- zoomer specification: a ViewActions object and its zoomer ----------

MaxComboBoxes == 1   \* comboboxes created for the zoomer

\* the zoom factors the application's views come with; 1004 is not an
\* entry of the combobox
ViewFactors == {1000, 1004}

\* the states the application's views come in; the other view modes are
\* reached from the combobox
ViewZooms == [viewMode : {FixedScale, FitWidth}, zoomFactor : ViewFactors]

InitZoomer ==
    /\ InitActions({"none"}, NoPages)
    /\ NoDialog
    /\ viewZoom \in {z \in [Views -> ViewZooms] :
                        \A v \in NewViews : z[v] = DefaultZoom}
    /\ doc = << <<"x">> >>
    /\ hook = "default"
    /\ visible = <<TRUE>>
    /\ marks = <<FALSE>>
    /\ op = "init"
    /\ err = FALSE
    /\ ret = NoRet
    /\ painted = <<>>

CreateComboBox ==
    /\ ~err
    /\ Len(comboBoxes) < MaxComboBoxes
    /\ \E x \in OnError : DoneQ("createWidget", createComboBox(Q(x)))

\* the entries the user chooses: the view modes and the factors 0.75, 1.0
ChosenIndexes == {i \in Indexes : i <= Len(_viewModes) + 2 /\ i # Len(_viewModes)}

\* the user chooses entry i of combobox w: the combobox shows the entry and
\* its activated signal runs setCurrentIndex(i)
SetCurrentIndex ==
    /\ ~err
    /\ \E w \in 1..Len(comboBoxes), i \in ChosenIndexes, x \in OnError :
           DoneQ("setCurrentIndex",
                 setCurrentIndex([Q(x) EXCEPT !.combos[w] = selectIndex(@, i)],
                                 i))

NextZoomer == SetView \/ CreateComboBox \/ SetCurrentIndex

SpecZoomer == InitZoomer /\ [][NextZoomer]_vars

\* ---- dialog specification: the copy-to-image Dialog ----------------------

InitCopy ==
    /\ InitActions({"none"}, NoPages)
    /\ viewZoom = [v \in Views |-> DefaultZoom]
    /\ InitDialog([Classes -> BOOLEAN], TypeIndexes, DpiTexts)
    /\ doc = << <<"x">> >>
    /\ hook = "default"
    /\ visible = <<TRUE>>
    /\ marks = <<FALSE>>
    /\ op = "init"
    /\ err = FALSE
    /\ ret = NoRet
    /\ painted = <<>>

\* the state a call starts from when a slot exception has outcome onerror
D(onerror) ==
    [page |-> _page, exporter |-> _exporter, job |-> _job, jobs |-> jobs,
     document |-> document, dragger |-> exporter, currentFile |-> currentFile,
     enabled |-> enabled, currentIndex |-> currentIndex,
     currentText |-> currentText, supportsResolution |-> supportsResolution,
     exported |-> exported, used |-> used, err |-> FALSE,
     onerror |-> onerror]

\* a call that leaves the state d behind
DoneD(name, d) ==
    /\ op' = name
    /\ err' = d.err
    /\ _page' = d.page
    /\ _exporter' = d.exporter
    /\ _job' = d.job
    /\ jobs' = d.jobs
    /\ document' = d.document
    /\ exporter' = d.dragger
    /\ currentFile' = d.currentFile
    /\ enabled' = d.enabled
    /\ currentIndex' = d.currentIndex
    /\ currentText' = d.currentText
    /\ exported' = d.exported
    /\ used' = d.used
    /\ UNCHANGED supportsResolution
    /\ UNCHANGED fvars
    /\ UNCHANGED qvars

\* copy_image() shows the dialog and sets the page
SetPage ==
    /\ ~err
    /\ _page = None
    /\ exported < MaxExports
    /\ \E x \in OnError : DoneD("setPage", setPage(D(x), 1))

\* the user selects another export type; copy_image() has set the page
\* before the user can do anything
TypeChanged ==
    /\ ~err
    /\ _page # None
    /\ exported < MaxExports
    /\ \E i \in TypeIndexes \ {currentIndex}, x \in OnError :
           DoneD("updateExport", updateExport([D(x) EXCEPT !.currentIndex = i]))

\* the user edits the text of the DPI box
DpiEdited ==
    /\ ~err
    /\ _page # None
    /\ exported < MaxExports
    /\ \E t \in DpiTexts \ {currentText}, x \in OnError :
           DoneD("updateExport", updateExport([D(x) EXCEPT !.currentText = t]))

\* an export job ends
Finished ==
    /\ ~err
    /\ \E j \in jobs, x \in OnError : DoneD("exportDone", finished(D(x), j))

CopyToClipboard ==
    /\ ~err
    /\ enabled["copyButton"]
    /\ \E x \in OnError : DoneD("copyToClipboard", copyToClipboard(D(x)))

SaveAs ==
    /\ ~err
    /\ enabled["saveButton"]
    /\ document # None
    /\ \E x \in OnError : DoneD("saveAs", saveAs(D(x)))

Drag ==
    /\ ~err
    /\ enabled["dragfile"]
    /\ \E x \in OnError : DoneD("filename", filename(D(x)))

NextCopy ==
    \/ SetPage \/ TypeChanged \/ DpiEdited \/ Finished \/ CopyToClipboard
    \/ SaveAs \/ Drag

SpecCopy == InitCopy /\ [][NextCopy]_vars

\* ---- paint specification: the folder and the folding area ----------------

MaxPaintLines == 3   \* longest document of the paint specification

PaintDocs == UNION {[1..k -> LineTexts] : k \in 1..MaxPaintLines}

InitPaint == InitFolder(PaintDocs)

\* the edit scrolled to a visible block; the rectangle to paint ends above
\* block bottom
PaintEvent ==
    /\ \E first \in {b \in Lines(doc) : visible[b]}, bottom \in 1..(Len(doc) + 1) :
           painted' = paintEvent(doc, visible, first, bottom)
    /\ op' = "paintEvent"
    /\ err' = FALSE
    /\ UNCHANGED <<doc, hook, visible, marks, ret>>
    /\ UNCHANGED qvars
    /\ UNCHANGED dvars

NextPaint == Next \/ PaintEvent

SpecPaint == InitPaint /\ [][NextPaint]_vars

\* ---- vocabulary of the properties -----------------------------------------

Level(b) == fold_level(doc[b])

Count(text, c) == Len(SelectSeq(text, LAMBDA x : x = c))

\* nesting after the closing events of line e, counted from the events
RECURSIVE NestAfter(_, _)
NestAfter(d, i) == IF i = 0 THEN 0 ELSE NestAfter(d, i - 1) + SumSeq(fold_events(d[i]))

Low(d, e) == NestAfter(d, e - 1) + fold_level(d[e]).stop

\* the k-th START left open on line s is still open at the end of line b
Encloses(d, s, k, b) ==
    /\ s <= b
    /\ k \in 1..fold_level(d[s]).start
    /\ \A e \in (s + 1)..b : Low(d, e) > Low(d, s) + k - 1

HasEnclosing(d, b) == \E s \in Lines(d) : \E k \in 1..Len(d[s]) : Encloses(d, s, k, b)

Hidden(st) == {b \in DOMAIN st.visible : ~st.visible[b]}

\* the last line fold() hides for region r
FoldEnd(d, r) == IF fold_level(d[r.end]).start # 0 THEN r.end - 1 ELSE r.end

\* region r is folded in the current state
Folded(r) == r.end > r.start /\ \A i \in (r.start + 1)..FoldEnd(doc, r) : ~visible[i]

\* ---- C1 -------------------------------------------------------------------

\* C1 as stated: when region(b, depth) resolves to (start_line, end_line),
\* after fold(b, depth) every line strictly between them is invisible and
\* start_line and end_line are visible if they were visible before.
C1_FoldLeavesEndVisible ==
    \A b \in Lines(doc), d \in Depths :
        LET r == region(doc, b, d)
            st == fold(doc, hook, Cur, b, d)
        IN  r.kind = "region" =>
                /\ \A i \in (r.start + 1)..(r.end - 1) : ~st.visible[i]
                /\ visible[r.start] => st.visible[r.start]
                /\ visible[r.end] => st.visible[r.end]

\* C1 amended: when region(b, depth) resolves to (start_line, end_line),
\* after fold(b, depth) every line strictly between them is invisible,
\* start_line is visible if it was before, and end_line is left as it was
\* when it opens a new region and is invisible when it does not.
C1_FoldHidesRegion ==
    \A b \in Lines(doc), d \in Depths :
        LET r == region(doc, b, d)
            st == fold(doc, hook, Cur, b, d)
        IN  r.kind = "region" =>
                /\ \A i \in (r.start + 1)..(r.end - 1) : ~st.visible[i]
                /\ visible[r.start] => st.visible[r.start]
                /\ IF Level(r.end).start # 0
                   THEN st.visible[r.end] = visible[r.end]
                   ELSE ~st.visible[r.end]

\* a region with a line inside it has just been folded: the line inside is
\* hidden, the end line opens a new region and is still visible
C1_Witness ==
    /\ op = "fold"
    /\ \E b \in Lines(doc) :
        LET r == region(doc, b, 0)
        IN  /\ r.kind = "region"
            /\ r.end > r.start + 1
            /\ Level(r.end).start # 0
            /\ visible[r.start] /\ visible[r.end]
            /\ \A i \in (r.start + 1)..(r.end - 1) : ~visible[i]
            /\ hook = "storing" => marks[r.start]

\* ---- C2 -------------------------------------------------------------------

\* C2: in every state reachable from a fully visible document, every line b
\* that is invisible is visible when ensure_visible(b) returns.
C2_EnsureVisibleShows ==
    \A b \in Lines(doc) :
        ~visible[b] =>
            LET st == ensure_visible(doc, hook, Cur, b)
            IN  ~st.err /\ st.visible[b]

\* ---- C3 -------------------------------------------------------------------

\* C3: region, fold, unfold, fold_all, unfold_all and ensure_visible complete
\* without raising an error for every document and every line, region
\* returning a Region or none.
C3_Total ==
    /\ ~err
    /\ \A b \in Lines(doc), d \in Depths :
        /\ region(doc, b, d).kind \in {"region", "none"}
        /\ ~fold(doc, hook, Cur, b, d).err
        /\ \A full \in BOOLEAN : ~unfold(doc, hook, Cur, b, d, full).err
        /\ ~ensure_visible(doc, hook, Cur, b).err
    /\ ~fold_all(doc, hook, Cur).err
    /\ ~unfold_all(doc, hook, Cur).err

\* ---- C4 -------------------------------------------------------------------

\* fold_all() and then unfold_all(), from the current state
FoldAllUnfoldAll == unfold_all(doc, hook, fold_all(doc, hook, Cur))

\* C4 as stated: in every visibility state reachable by earlier calls,
\* fold_all() followed by unfold_all() leaves every line with the visibility
\* it had before fold_all() was called.
C4_RoundTripAnyState == FoldAllUnfoldAll.visible = visible

\* C4 amended: when every line of the document is visible, fold_all()
\* followed by unfold_all() leaves every line visible, as it was before
\* fold_all() was called.
C4_RoundTripFromVisible ==
    (\A b \in Lines(doc) : visible[b]) => FoldAllUnfoldAll.visible = visible

\* fold_all() has just hidden lines, and unfold_all() brings all of them back
C4_Witness ==
    /\ op = "fold_all"
    /\ ~err
    /\ Hidden(Cur) # {}
    /\ Hidden(unfold_all(doc, hook, Cur)) = {}

\* ---- C5 -------------------------------------------------------------------

\* the lines between start and end that open a sub-region
SubOpeners(r) == {s \in (r.start + 1)..(r.end - 1) : Level(s).start # 0}

\* the lines fold(s) hides
FoldSpan(s) ==
    LET rs == region(doc, s, 0)
    IN  IF rs.kind = "region" THEN (rs.start + 1)..FoldEnd(doc, rs) ELSE {}

\* the lines of r that belong to the hidden part of a sub-region marked
\* collapsed
KeptCollapsed(r) == UNION {FoldSpan(s) : s \in {t \in SubOpeners(r) : marks[t]}}

\* C5: with a mark hook that stores marks, after unfold(b, 0, full=false) on
\* a folded region the lines a marked sub-region had hidden when it was folded
\* are invisible and every other line of the region is visible.
C5_UnfoldKeepsCollapsed ==
    hook = "storing" =>
        \A b \in Lines(doc) :
            LET r == region(doc, b, 0)
                st == unfold(doc, hook, Cur, b, 0, FALSE)
            IN  (r.kind = "region" /\ Folded(r) /\ marks[r.start]) =>
                    \A i \in r.start..r.end :
                        st.visible[i] <=> i \notin KeptCollapsed(r)

\* ---- C6 -------------------------------------------------------------------

Range(f) == {f[i] : i \in DOMAIN f}

\* C6: when region(b, depth) resolves to (start_line, end_line), after
\* unfold(b, depth, full=true) every line from start_line to end_line is
\* visible, and the collapse mark of start_line and of every line strictly
\* between them that opens a sub-region is cleared.
C6_UnfoldFullShowsAll ==
    \A b \in Lines(doc), d \in Depths :
        LET r == region(doc, b, d)
            st == unfold(doc, hook, Cur, b, d, TRUE)
        IN  r.kind = "region" =>
                /\ \A i \in r.start..r.end : st.visible[i]
                /\ \A s \in {r.start} \cup SubOpeners(r) :
                        ~st.marks[s] /\ <<s, FALSE>> \in Range(st.calls)

\* a folded region holds a sub-region that is marked collapsed, and
\* unfold(b, 0, full=true) shows all its lines and clears both marks
C6_Witness ==
    /\ hook = "storing"
    /\ op = "fold"
    /\ \E b \in Lines(doc) :
        LET r == region(doc, b, 0)
            st == unfold(doc, hook, Cur, b, 0, TRUE)
        IN  /\ r.kind = "region" /\ Folded(r) /\ marks[r.start]
            /\ \E s \in SubOpeners(r) : marks[s] /\ ~visible[s] /\ ~st.marks[s]
            /\ \A i \in r.start..r.end : st.visible[i]
            /\ ~st.marks[r.start]

\* ---- C7 -------------------------------------------------------------------

Balanced(text) == Count(text, "{") = Count(text, "}")

\* no prefix of the text holds more '}' than '{'
Nested(text) ==
    \A n \in 0..Len(text) :
        Count(SubSeq(text, 1, n), "}") <= Count(SubSeq(text, 1, n), "{")

\* C7 as stated: for every line whose text contains the same number of '{'
\* and '}' characters, in any order, fold_level(line) is (stop=0, start=0).
C7_BalancedAnyOrder ==
    (op = "fold_level" /\ Balanced(doc[1])) => ret = [stop |-> 0, start |-> 0]

\* C7 amended: for every line whose text contains the same number of '{' and
\* '}' characters, each '}' coming after a '{' of the line that no earlier
\* '}' has closed, fold_level(line) is (stop=0, start=0).
C7_BalancedNested ==
    (op = "fold_level" /\ Balanced(doc[1]) /\ Nested(doc[1])) =>
        ret = [stop |-> 0, start |-> 0]

\* fold_level has returned (0, 0) for a line with two pairs of braces
C7_Witness ==
    /\ op = "fold_level"
    /\ Balanced(doc[1]) /\ Nested(doc[1])
    /\ Count(doc[1], "{") = 2
    /\ ret = [stop |-> 0, start |-> 0]

\* ---- C8 -------------------------------------------------------------------

RECURSIVE LevelSum(_, _)
LevelSum(d, n) ==
    IF n = 0 THEN 0
    ELSE LevelSum(d, n - 1) + fold_level(d[n]).start + fold_level(d[n]).stop

\* the document ['a {', 'b {', 'c }', 'd }']
Example == << <<"x", "{">>, <<"x", "{">>, <<"x", "}">>, <<"x", "}">> >>

\* C8: depth(line) is the sum of fold_level.start + fold_level.stop over the
\* lines strictly before it, whatever the visibility of the lines; in the
\* document ['a {', 'b {', 'c }', 'd }'] the depths are 0, 1, 2, 1.
C8_DepthIsLevelSum ==
    /\ \A b \in Lines(doc) : depth(doc, b) = LevelSum(doc, b - 1)
    /\ <<depth(Example, 1), depth(Example, 2), depth(Example, 3), depth(Example, 4)>>
            = <<0, 1, 2, 1>>

\* a hidden line at depth 2 that follows a line closing and opening a region
C8_Witness ==
    /\ op = "fold"
    /\ \E b \in Lines(doc) :
        /\ ~visible[b]
        /\ depth(doc, b) = 2
        /\ \E c \in 1..(b - 1) : Level(c).stop < 0 /\ Level(c).start > 0

\* ---- C9 -------------------------------------------------------------------

\* the line on which the region of the k-th START of line s ends
RefEnd(d, s, k) ==
    LET closing == {e \in (s + 1)..Len(d) : Low(d, e) <= Low(d, s) + k - 1}
    IN  IF closing = {} THEN Len(d)
        ELSE CHOOSE e \in closing : \A f \in closing : e <= f

\* the regions enclosing b that open on lines s, s-1, ..., innermost first
RECURSIVE RefChain(_, _, _)
RefChain(d, b, s) ==
    IF s = 0 THEN <<>>
    ELSE LET m == Cardinality({k \in 1..Len(d[s]) : Encloses(d, s, k, b)})
         IN  [j \in 1..m |-> <<s, m + 1 - j>>] \o RefChain(d, b, s - 1)

RefRegion(d, b, n) ==
    LET chain == RefChain(d, b, b)
        i == IF n = -1 \/ n + 1 > Len(chain) THEN Len(chain) ELSE n + 1
    IN  IF chain = <<>> THEN NoRegion
        ELSE Region(chain[i][1], RefEnd(d, chain[i][1], chain[i][2]))

\* C9: region(b, 0) is the innermost region enclosing b, region(b, -1) the
\* outermost and region(b, n) the one n levels above the innermost (the
\* outermost when fewer exist); its start_line is the line whose START opened
\* it and its end_line the first later line on which nesting returns to the
\* depth before that START (the last line if it never does).  In the document
\* ['a {', 'b {', 'c }', 'd }'], region(line1, 0) = (line1, line2) and
\* region(line1, -1) = (line0, line3).
C9_RegionIsEnclosing ==
    /\ \A b \in Lines(doc), n \in Depths : region(doc, b, n) = RefRegion(doc, b, n)
    /\ region(Example, 2, 0) = Region(2, 3)
    /\ region(Example, 2, -1) = Region(1, 4)

\* ---- C10 ------------------------------------------------------------------

\* C10: when line b has no enclosing fold region, region(b, depth) returns
\* none for every depth, and fold(b, depth) and unfold(b, depth, full) change
\* no visibility and no mark, and signal no repaint.
C10_NoRegionNoOp ==
    \A b \in Lines(doc) :
        ~HasEnclosing(doc, b) =>
            \A d \in Depths :
                /\ region(doc, b, d) = NoRegion
                /\ fold(doc, hook, Cur, b, d) = Cur
                /\ \A full \in BOOLEAN : unfold(doc, hook, Cur, b, d, full) = Cur

\* a region has been folded, and on its hidden closing line, which no region
\* encloses, unfold changes nothing
C10_Witness ==
    /\ op = "fold"
    /\ \E b \in Lines(doc) :
        /\ ~visible[b]
        /\ Level(b).stop < 0
        /\ ~HasEnclosing(doc, b)
        /\ region(doc, b, -1) = NoRegion
        /\ unfold(doc, hook, Cur, b, 0, TRUE) = Cur

\* ---- C11 ------------------------------------------------------------------

\* C11: ensure_visible(b) on a line b that is already visible changes no
\* line's visibility, changes no collapse mark and signals no repaint span.
C11_EnsureVisibleNoOp ==
    \A b \in Lines(doc) :
        visible[b] => ensure_visible(doc, hook, Cur, b) = Cur

\* ensure_visible has run, and a visible line inside a folded, marked region
\* that an unfold would change is left alone by it
C11_Witness ==
    /\ op = "ensure_visible"
    /\ hook = "storing"
    /\ \E b \in Lines(doc) :
        LET r == region(doc, b, 0)
        IN  /\ visible[b]
            /\ depth(doc, b) > 0
            /\ r.kind = "region" /\ Folded(r) /\ marks[r.start]
            /\ unfold(doc, hook, Cur, b, 0, FALSE) # Cur
            /\ ensure_visible(doc, hook, Cur, b) = Cur

\* ---- C12 ------------------------------------------------------------------

Span(r) == r.start..r.end

\* the opening lines of the regions that are folded and marked collapsed
FoldedOpeners ==
    {s \in Lines(doc) :
        /\ Level(s).start # 0
        /\ marks[s]
        /\ region(doc, s, 0).kind = "region"
        /\ Folded(region(doc, s, 0))}

\* the folded regions that hide line b
Hiding(b) == {s \in FoldedOpeners : b \in (s + 1)..FoldEnd(doc, region(doc, s, 0))}

\* the opening lines of the regions region(b, d) can resolve to
EnclosingStarts(b) ==
    {region(doc, b, d).start : d \in {e \in 0..Len(doc) : region(doc, b, e).kind = "region"}}

\* C12: with a mark hook that stores marks, ensure_visible(b) on a hidden
\* line b that three nested folded regions hide unfolds only regions that
\* enclose b, outermost first; every folded region that does not contain b
\* is still folded afterwards (same hidden lines, mark still set), and no
\* line outside the outermost region enclosing b changes visibility.
C12_EnsureVisibleMinimal ==
    hook = "storing" =>
        \A b \in Lines(doc) :
            (~visible[b] /\ Cardinality(Hiding(b)) >= 3) =>
                LET st == ensure_visible(doc, hook, Cur, b)
                    out == region(doc, b, -1)
                IN  /\ \A i \in 1..Len(st.calls) :
                           /\ st.calls[i][2] = FALSE
                           /\ st.calls[i][1] \in EnclosingStarts(b)
                    /\ \A i \in 1..(Len(st.calls) - 1) :
                           st.calls[i][1] <= st.calls[i + 1][1]
                    /\ \A s \in FoldedOpeners :
                           b \notin Span(region(doc, s, 0)) =>
                               /\ st.marks[s]
                               /\ \A i \in (s + 1)..FoldEnd(doc, region(doc, s, 0)) :
                                      ~st.visible[i]
                    /\ \A i \in Lines(doc) :
                           (out.kind # "region" \/ i \notin Span(out)) =>
                               st.visible[i] = visible[i]

\* ---- C13 ------------------------------------------------------------------

\* the lines a sequence of mark calls names
Marked(calls) == {calls[i][1] : i \in 1..Len(calls)}

\* the lines fold was called on: fold either marks its start line or raises,
\* and only the fold of the last line raises
FoldCalls(st) == Marked(st.calls) \cup (IF st.err THEN {Len(doc)} ELSE {})

\* C13: fold_all() calls fold exactly on the lines that open a region and
\* are still visible when the forward pass reaches them; for a region it
\* folds, no opening line among the lines that fold hides gets a mark call
\* or is folded itself, and the marks those lines had before are unchanged.
C13_FoldAllTopLevel ==
    LET st == fold_all(doc, hook, Cur)
    IN  /\ FoldCalls(st) = {s \in Lines(doc) : Level(s).start # 0 /\ st.visible[s]}
        /\ \A i \in 1..Len(st.calls) : st.calls[i][2] = TRUE
        /\ \A i \in 1..(Len(st.calls) - 1) : st.calls[i][1] < st.calls[i + 1][1]
        /\ \A s \in Marked(st.calls) :
               /\ region(doc, s, 0).start = s
               /\ \A t \in FoldSpan(s) :
                      /\ ~st.visible[t]
                      /\ Level(t).start # 0 =>
                             /\ t \notin FoldCalls(st)
                             /\ st.marks[t] = marks[t]

\* fold_all has folded an outer region whose hidden lines hold the opening
\* line of an inner region that was marked collapsed before and one that was
\* not: neither mark has changed
C13_Witness ==
    /\ op = "fold_all"
    /\ hook = "storing"
    /\ ~err
    /\ \E s \in Lines(doc) : \E t, u \in FoldSpan(s) :
           /\ visible[s] /\ marks[s]
           /\ Level(t).start # 0 /\ marks[t]
           /\ Level(u).start # 0 /\ ~marks[u]
           /\ fold_all(doc, hook, Cur).marks = marks

\* ---- C14 ------------------------------------------------------------------

Min(S) == CHOOSE x \in S : \A y \in S : x <= y

Max(S) == CHOOSE x \in S : \A y \in S : x >= y

\* C14: after unfold_all() from any state every line is visible and every
\* line that opens a region has had its collapse mark cleared (mark(line,
\* False) was called; a storing hook holds no mark for it); exactly one
\* repaint is signalled, from the first to the last line that was invisible,
\* when a line was invisible, and none when no line was.
C14_UnfoldAllShowsAll ==
    LET st == unfold_all(doc, hook, Cur)
        openers == {b \in Lines(doc) : Level(b).start # 0}
    IN  /\ ~st.err
        /\ \A b \in Lines(doc) : st.visible[b]
        /\ \A b \in openers : <<b, FALSE>> \in Range(st.calls) /\ ~st.marks[b]
        /\ \A i \in 1..Len(st.calls) : st.calls[i][2] = FALSE
        /\ st.dirty = IF Hidden(Cur) = {} THEN <<>>
                      ELSE << <<Min(Hidden(Cur)), Max(Hidden(Cur))>> >>

\* two folds have left two separate runs of invisible lines and two marks;
\* unfold_all signals one span over both runs
C14_Witness ==
    /\ op = "fold"
    /\ hook = "storing"
    /\ \E a, b, c \in Lines(doc) :
           /\ a < b /\ b < c
           /\ ~visible[a] /\ visible[b] /\ ~visible[c]
           /\ marks[b]
           /\ unfold_all(doc, hook, Cur).dirty = << <<Min(Hidden(Cur)), c>> >>
           /\ unfold_all(doc, hook, Cur).marks # marks

\* ---- C19 ------------------------------------------------------------------

\* the nesting after the first n events of ev
Nesting(ev, n) == SumSeq(SubSeq(ev, 1, n))

\* the START events no later STOP of the line cancels: the nesting never
\* falls below the nesting they lead to
Uncancelled(ev) ==
    {i \in 1..Len(ev) :
        /\ ev[i] = START
        /\ \A j \in i..Len(ev) : Nesting(ev, j) >= Nesting(ev, i)}

\* the STOP events that find no START of the line pending: they take the
\* nesting below everything before
Unmatched(ev) ==
    {j \in 1..Len(ev) :
        /\ ev[j] = STOP
        /\ \A i \in 0..(j - 1) : Nesting(ev, i) > Nesting(ev, j)}

\* C19: for every sequence of START/STOP events on a line, fold_level
\* returns start = the number of START events no later STOP of the line
\* cancels and stop = minus the number of STOP events that find no START of
\* the line pending; so start >= 0, stop <= 0 and start + stop is the sum of
\* the events.
C19_FoldLevelCounts ==
    op = "fold_level" =>
        LET ev == fold_events(doc[1])
        IN  /\ ret.start = Cardinality(Uncancelled(ev))
            /\ ret.stop = -Cardinality(Unmatched(ev))
            /\ ret.start >= 0
            /\ ret.stop <= 0
            /\ ret.start + ret.stop = SumSeq(ev)

\* fold_level has returned (-1, 1) for a line of four events: a cancelled
\* pair, a STOP that finds no START pending and a START that stays open
C19_Witness ==
    /\ op = "fold_level"
    /\ ret = [stop |-> -1, start |-> 1]
    /\ Len(fold_events(doc[1])) = 4

\* ---- C20 ------------------------------------------------------------------

\* what fold(b, d) leaves behind when region(b, d) resolves to r
FoldFrame(r, st) ==
    /\ ~st.err
    /\ \A i \in Lines(doc) :
           st.visible[i] = IF i \in (r.start + 1)..FoldEnd(doc, r) THEN FALSE
                           ELSE visible[i]
    /\ st.calls = << <<r.start, TRUE>> >>
    /\ st.marks = IF hook = "storing" THEN [marks EXCEPT ![r.start] = TRUE]
                  ELSE marks

\* C20: fold(b, depth) with resolved region (start_line, end_line) makes
\* invisible exactly the lines after start_line up to the adjusted end (the
\* line before end_line if end_line opens a region, end_line otherwise) and
\* changes the visibility of no other line; it calls mark(start_line, True)
\* and no other mark, so that a storing hook changes the mark of start_line
\* only; and no step of the folder alters the content of a line.
C20_FoldFrame ==
    /\ [](\A b \in Lines(doc), d \in Depths :
              LET r == region(doc, b, d)
              IN  r.kind = "region" => FoldFrame(r, fold(doc, hook, Cur, b, d)))
    /\ [][doc' = doc]_vars

\* a region whose end line opens nothing has just been folded next to a line
\* that follows it and next to a collapsed region before it: its end line is
\* hidden, the line after it is visible, both marks are set
C20_Witness ==
    /\ op = "fold"
    /\ hook = "storing"
    /\ \E b \in Lines(doc) :
        LET r == region(doc, b, 0)
        IN  /\ r.kind = "region"
            /\ r.start = b
            /\ Level(r.end).start = 0
            /\ r.end < Len(doc)
            /\ visible[r.start] /\ marks[r.start]
            /\ ~visible[r.end] /\ visible[r.end + 1]
            /\ \E s \in 1..(r.start - 1) : marks[s]
            /\ FoldFrame(r, fold(doc, hook, Cur, b, 0))

\* ---- C15 ------------------------------------------------------------------

\* C15: after any sequence of setView calls with views or None, every signal
\* of the view that is set has the update slots connected exactly once, and
\* no signal of any other view has them connected; after setView(None) no
\* view has.
C15_ConnectedOnce ==
    \A v \in Views, s \in Signals :
        connections[v][s] = IF v = _view THEN 1 ELSE 0

\* setView(view 1) has run while the handler of viewRequested set views of
\* its own first; now setting view 1 again changes nothing, setting view 2
\* moves the connections to view 2, setting None removes them
C15_Witness ==
    /\ op = "setView"
    /\ _view = 1
    /\ handler = "setter"
    /\ requested > 1
    /\ \A s \in Signals : connections[1][s] = 1
    /\ \A x \in OnError :
           /\ setView(Q(x), 1).conn = connections
           /\ setView(Q(x), 2).view = 2
           /\ \A s \in Signals :
                  /\ setView(Q(x), 2).conn[1][s] = 0
                  /\ setView(Q(x), 2).conn[2][s] = 1
                  /\ setView(Q(x), None).conn[1][s] = 0

\* ---- C16 ------------------------------------------------------------------

\* C16: when no view is set and the handler connected to viewRequested
\* creates a view v and calls setView(v), slotZoomIn terminates, emits
\* viewRequested once, leaves v as the view that is set and calls zoomIn on
\* v exactly once; when no handler sets a view the slot does nothing.
C16_RequestedViewUsed ==
    _view = None =>
        \A x \in OnError :
            LET q == slotZoomIn(Q(x))
            IN  IF handler = "setter"
                THEN /\ ~q.err
                     /\ q.requested = 1
                     /\ q.view = MaxViews + 1
                     /\ q.calls = << <<q.view, "zoomIn">> >>
                ELSE q = [Q(x) EXCEPT !.requested = 1]

\* ---- C17 ------------------------------------------------------------------

\* C17: setCurrentPageNumber(num) emits currentPageNumberChanged(num)
\* exactly once when num is nonzero and differs from the current page number
\* and nothing otherwise; updateCurrentPageNumber(num) and setPageCount(n)
\* never emit it, whatever spinboxes have been created.
C17_PagerEmitsOnce ==
    \A x \in OnError :
        /\ \A num \in 0..(MaxPages + 1) :
               /\ setCurrentPageNumber(Q(x), num).emitted =
                      IF num # 0 /\ num # _currentPage THEN <<num>> ELSE <<>>
               /\ updateCurrentPageNumber(Q(x), num).emitted = <<>>
        /\ \A n \in 0..MaxPages : setPageCount(Q(x), n).emitted = <<>>

\* ---- C18 ------------------------------------------------------------------

\* C18: names() returns the names of the public action attributes that
\* createActions() sets, each name once.
C18_NamesAreActions ==
    op = "names" =>
        /\ Range(result) = createActions
        /\ Len(result) = Cardinality(createActions)

\* ---- C21 ------------------------------------------------------------------

\* C21: with the default mark hook unfold(b, depth, full=false) has the same
\* effect as unfold(b, depth, full=true) in every state: the same lines are
\* visible, the same span is signalled, the same calls raise, and every line
\* from start_line to end_line is visible afterwards, whatever sub-regions
\* had been folded before.
C21_DefaultUnfoldIsFull ==
    hook = "default" =>
        \A b \in Lines(doc), d \in Depths :
            LET r == region(doc, b, d)
                part == unfold(doc, hook, Cur, b, d, FALSE)
                full == unfold(doc, hook, Cur, b, d, TRUE)
            IN  /\ part.visible = full.visible
                /\ part.marks = full.marks
                /\ part.dirty = full.dirty
                /\ part.err = full.err
                /\ r.kind = "region" =>
                       \A i \in r.start..r.end : part.visible[i]

\* under the default hook a region and a sub-region inside it have been
\* folded; unfold(full=false) of the outer region shows the lines of both
C21_Witness ==
    /\ hook = "default"
    /\ op = "fold"
    /\ \E b \in Lines(doc) :
        LET r == region(doc, b, 0)
        IN  /\ r.kind = "region" /\ r.start = b /\ Folded(r)
            /\ \E s \in SubOpeners(r) :
                   /\ region(doc, s, 0).kind = "region"
                   /\ region(doc, s, 0).end < r.end
                   /\ region(doc, s, 0).end > s
            /\ Hidden(Cur) # {}
            /\ Hidden(unfold(doc, hook, Cur, b, 0, FALSE)) = {}

\* ---- C22 ------------------------------------------------------------------

\* C22: for every visible line that paintEvent paints, in every visibility
\* state, the depth passed to the painter is Folder.depth(that line).
C22_PaintedDepth ==
    op = "paintEvent" =>
        \A i \in 1..Len(painted) :
            /\ visible[painted[i].block]
            /\ painted[i].depth = depth(doc, painted[i].block)

\* a line has been painted after a run of hidden lines that changes the
\* nesting, at a depth other than zero
C22_Witness ==
    /\ op = "paintEvent"
    /\ \E i \in 2..Len(painted) :
           /\ painted[i].block > painted[i - 1].block + 1
           /\ painted[i].depth # 0
           /\ painted[i].depth # painted[i - 1].depth
                   + SumSeq(fold_events(doc[painted[i - 1].block]))

\* ---- C23 ------------------------------------------------------------------

\* C23: in every state reachable from a fully visible document by fold,
\* unfold, fold_all, unfold_all and ensure_visible calls on any lines, the
\* first line is visible and every maximal run of invisible lines comes
\* right after a visible line that opens a region.
C23_HiddenRunsHaveIndicator ==
    /\ visible[1]
    /\ \A b \in Lines(doc) \ {1} :
           (~visible[b] /\ visible[b - 1]) => Level(b - 1).start # 0

\* ---- C24 ------------------------------------------------------------------

\* region r is not folded: its opening line is visible and not marked, and
\* the only lines of r that are invisible are those that sub-regions marked
\* collapsed hide
Unfolded(r) ==
    /\ visible[r.start]
    /\ ~marks[r.start]
    /\ \A i \in (r.start + 1)..r.end : visible[i] <=> i \notin KeptCollapsed(r)

\* C24: with a mark hook that stores marks, in every reachable state in
\* which the region region(b, d) resolves to is not folded (sub-regions
\* inside it may be folded and marked), fold(b, d) followed at once by
\* unfold(b, d, full=false) restores the visibility of every line and every
\* collapse mark.
C24_FoldUnfoldRestores ==
    hook = "storing" =>
        \A b \in Lines(doc), d \in Depths :
            LET r == region(doc, b, d)
                st == unfold(doc, hook, fold(doc, hook, Cur, b, d), b, d, FALSE)
            IN  (r.kind = "region" /\ Unfolded(r)) =>
                    /\ st.visible = visible
                    /\ st.marks = marks

\* ---- C25 ------------------------------------------------------------------

\* C25: after any sequence of setPageCount, setCurrentPageNumber and
\* updateCurrentPageNumber calls with non-negative numbers the current page
\* number is 0 exactly when the page count is 0, and lies within
\* 1..pageCount otherwise.
C25_PageInRange ==
    IF _pageCount = 0 THEN _currentPage = 0
    ELSE _currentPage \in 1.._pageCount

\* what _adjustComboBox shows in a combobox without a selection
Shown(q) ==
    _adjustComboBox([currentIndex |-> -1, editText |-> [name |-> "", percent |-> 0]],
                    q.viewMode, q.zoomFactor)

WasEmitted(q, signal, value) ==
    \E k \in DOMAIN q.zoomEmitted : q.zoomEmitted[k] = <<signal, value>>

\* C26: with a view set, after setCurrentIndex(i) the entry _adjustComboBox
\* selects is i; a view-mode entry makes its mode current and emits
\* viewModeChanged with it, a zoom-factor entry makes its factor the shown
\* selection and emits zoomFactorChanged with it.
C26_ChosenEntryIsSelected ==
    (~err /\ _view # None) =>
        \A i \in Indexes :
            LET q == setCurrentIndex(Q("abort"), i)
                n == Len(_viewModes)
            IN  /\ Shown(q).currentIndex = i
                /\ i < n => /\ q.viewMode = _viewModes[i + 1][1]
                            /\ WasEmitted(q, "viewModeChanged", _viewModes[i + 1][1])
                /\ i >= n => /\ q.zoomFactor = _zoomFactors[i - n + 1]
                             /\ Shown(q).editText = itemText(i)
                             /\ WasEmitted(q, "zoomFactorChanged",
                                           _zoomFactors[i - n + 1])

\* C27: from the first setPage on, a copy, save or drag button is enabled
\* only when no export job is pending and the document in the image viewer,
\* the dialog's exporter and the FileDragger's exporter all come from the
\* most recent updateExport.
C27_ButtonsMeanCurrentExport ==
    (~err /\ _page # None) =>
        \A b \in Buttons :
            enabled[b] => /\ _job = None
                          /\ _exporter.id = exported
                          /\ document = exported
                          /\ exporter = _exporter

====
